---- MODULE Spec2Model ----
(***************************************************************************)
(* A model of pyactiveresource's activeresource.py: the path builder, the  *)
(* class-level factory operations (find, find_one, exists), the instance   *)
(* operations (save, destroy, attribute reads and writes) and the lazily   *)
(* created per-type connection object.                                     *)
(*                                                                         *)
(* Python strings are sequences of one-character strings, so that paths    *)
(* are built, scanned and compared character by character.  Python values  *)
(* are tagged records [t, v]; a dict is a total function over its key      *)
(* universe whose missing keys hold Absent.                                *)
(***************************************************************************)
EXTENDS Integers, Sequences, FiniteSets, TLC

\* Largest integer used as a resource id (ids range over 0..MaxId).
MaxId == 1
\* Longest collection a list response holds.
MaxList == 2
\* Number of threads making use of the type's connection concurrently.
MaxThreads == 2

---------------------------------------------------------------------------
(* Python values *)

Absent == [t |-> "absent", v |-> <<>>]
None == [t |-> "none", v |-> <<>>]
IntV(n) == [t |-> "int", v |-> n]
StrV(s) == [t |-> "str", v |-> s]

\* bool(v): None, 0 and '' are false.
Truthy(v) ==
    CASE v.t = "int" -> v.v # 0
      [] v.t = "str" -> Len(v.v) > 0
      [] OTHER -> FALSE

Digits == <<"0", "1", "2", "3", "4", "5", "6", "7", "8", "9">>

RECURSIVE Decimal(_)
Decimal(n) == IF n < 10 THEN <<Digits[n + 1]>>
              ELSE Decimal(n \div 10) \o <<Digits[(n % 10) + 1]>>

\* '%s' % v, str(v)
ToStr(v) ==
    CASE v.t = "int" -> Decimal(v.v)
      [] v.t = "str" -> v.v
      [] v.t = "none" -> <<"N", "o", "n", "e">>
      [] OTHER -> <<>>

---------------------------------------------------------------------------
(* string.Template over character sequences *)

Letters == {"a", "b", "f", "j", "k", "p", "q", "_"}
IsIdStart(c) == c \in Letters
IsIdChar(c) == c \in Letters \/ c \in {Digits[i] : i \in 1..10}

\* The end (exclusive) of the longest run of identifier characters from i.
RECURSIVE IdEnd(_, _)
IdEnd(s, i) == IF i <= Len(s) /\ IsIdChar(s[i]) THEN IdEnd(s, i + 1) ELSE i

\* Template.pattern matched at a "$" in position i: the kind of the match,
\* the identifier it names and the position after the match.
\*   \$(?:(?P<escaped>\$)|(?P<named>id)|{(?P<braced>id)}|(?P<invalid>))
TemplateMatch(s, i) ==
    IF i < Len(s) /\ s[i + 1] = "$"
      THEN [kind |-> "escaped", name |-> <<>>, next |-> i + 2]
    ELSE IF i < Len(s) /\ IsIdStart(s[i + 1])
      THEN [kind |-> "named", name |-> SubSeq(s, i + 1, IdEnd(s, i + 1) - 1),
            next |-> IdEnd(s, i + 1)]
    ELSE IF /\ i + 1 < Len(s) /\ s[i + 1] = "{" /\ IsIdStart(s[i + 2])
            /\ IdEnd(s, i + 2) <= Len(s) /\ s[IdEnd(s, i + 2)] = "}"
      THEN [kind |-> "braced", name |-> SubSeq(s, i + 2, IdEnd(s, i + 2) - 1),
            next |-> IdEnd(s, i + 2) + 1]
    ELSE [kind |-> "invalid", name |-> <<>>, next |-> i + 1]

\* The names template.pattern.finditer(path) yields as braced or named.
RECURSIVE TemplateKeys(_, _)
TemplateKeys(s, i) ==
    IF i > Len(s) THEN {}
    ELSE IF s[i] # "$" THEN TemplateKeys(s, i + 1)
    ELSE LET m == TemplateMatch(s, i)
         IN (IF m.kind \in {"named", "braced"} THEN {m.name} ELSE {})
              \cup TemplateKeys(s, m.next)

\* Template(s).safe_substitute(mapping) from position i: a named or braced
\* placeholder that is a key of mapping becomes str(mapping[name]), one that
\* is not stays as written, "$$" becomes "$" and a stray "$" stays.
RECURSIVE safe_substitute(_, _, _)
safe_substitute(s, i, mapping) ==
    IF i > Len(s) THEN <<>>
    ELSE IF s[i] # "$" THEN <<s[i]>> \o safe_substitute(s, i + 1, mapping)
    ELSE LET m == TemplateMatch(s, i)
             out == CASE m.kind = "escaped" -> <<"$">>
                      [] m.kind = "invalid" -> <<"$">>
                      [] m.name \in DOMAIN mapping -> ToStr(mapping[m.name])
                      [] OTHER -> SubSeq(s, i, m.next - 1)
         IN out \o safe_substitute(s, m.next, mapping)

---------------------------------------------------------------------------
(* The resource type *)

\* Option keys a caller passes as keyword arguments.
OptKeys == {<<"k">>, <<"j">>, <<"q">>}

\* The values a caller passes under each key (Absent: the key is not passed).
OptValues(key) ==
    CASE key = <<"k">> -> {Absent, IntV(3)}
      [] key = <<"j">> -> {Absent, IntV(4)}
      [] OTHER -> {Absent, StrV(<<"a", "/">>)}

\* Every keyword-argument dict over OptKeys.
AllKwargs == {o \in [OptKeys -> {Absent, IntV(3), IntV(4), StrV(<<"a", "/">>)}] :
                \A key \in OptKeys : o[key] \in OptValues(key)}

\* The keyword arguments calls are made with: none, a placeholder's value,
\* a query option, or all of them.
Kwargs == {o \in AllKwargs : o[<<"j">>] # Absent => \A key \in OptKeys : o[key] # Absent}

NoOptions == [key \in OptKeys |-> Absent]

\* urlparse.urlsplit(cls._site)[2] of the types modelled: '' (the default),
\* '/b/$k' and '/${k}/$j/'.
Sites == {<<>>,
          <<"/", "b", "/", "$", "k">>,
          <<"/", "$", "{", "k", "}", "/", "$", "j", "/">>}

\* cls._plural, set by ResourceMeta when the type is defined.
_plural == <<"p">>

\* Attribute names of the instance's data, and the values held under them.
DataNames == {"id", "x"}
DataValues(name) ==
    IF name = "id" THEN {Absent} \cup {IntV(n) : n \in 0..MaxId}
    ELSE {Absent, StrV(<<"a">>), StrV(<<"b">>)}

\* Every attribute dict over DataNames.
Attrs == {a \in [DataNames -> UNION {DataValues(n) : n \in DataNames}] :
            \A n \in DataNames : a[n] \in DataValues(n)}

NoAttrs == [n \in DataNames |-> Absent]

---------------------------------------------------------------------------
(* Path builder *)

VARIABLES
    site,            \* the path of cls._site, fixed when the type is defined
    connection_obj,  \* cls._connection_obj: 0 is None, n > 0 the n-th handle
    constructed,     \* how many connection.Connection objects were constructed
    obj,             \* the instance the program holds
    pre,             \* that instance before the last instance operation
    call,            \* the last operation and its arguments
    resp,            \* what the transport answered to it
    reqs,            \* the requests the last operation issued
    ret,             \* what the last operation returned or raised
    pc,              \* per thread: its position in _connection and its use
    new,             \* per thread: the handle it constructed
    handle,          \* per thread: the handle _connection returned to it
    used             \* the handles threads issued requests on

vars == <<site, connection_obj, constructed, obj, pre, call, resp, reqs, ret,
          pc, new, handle, used>>

\* dict.get(key, '')
Get(options, key) ==
    IF key \in DOMAIN options /\ options[key] # Absent THEN options[key]
    ELSE StrV(<<>>)

\* bool(options) of a dict: it has a key.
NonEmpty(options) == \E key \in DOMAIN options : options[key] # Absent

\* urllib.quote_plus of one character.
QuoteChar(c) ==
    CASE c = " " -> <<"+">>
      [] c = "/" -> <<"%", "2", "F">>
      [] c = "$" -> <<"%", "2", "4">>
      [] c = "&" -> <<"%", "2", "6">>
      [] c = "=" -> <<"%", "3", "D">>
      [] c = "?" -> <<"%", "3", "F">>
      [] OTHER -> <<c>>

RECURSIVE quote_plus(_)
quote_plus(s) == IF s = <<>> THEN <<>> ELSE QuoteChar(Head(s)) \o quote_plus(Tail(s))

\* The order in which the dict's keys are iterated: fixed for a build.
KeyOrder == << <<"j">>, <<"k">>, <<"q">> >>

\* urllib.urlencode(options): quoted key=value pairs joined by "&".
RECURSIVE urlencode(_, _)
urlencode(options, i) ==
    IF i > Len(KeyOrder) THEN <<>>
    ELSE LET key == KeyOrder[i]
             rest == urlencode(options, i + 1)
         IN IF options[key] = Absent THEN rest
            ELSE quote_plus(key) \o <<"=">> \o quote_plus(ToStr(options[key]))
                   \o (IF rest = <<>> THEN <<>> ELSE <<"&">> \o rest)

\* A function held as an explicit table, so that applying it is a lookup.
Table(f) == f @@ <<>>

\* The query string of every options dict, computed once.
QueryStrings ==
    Table([options \in AllKwargs |->
             IF NonEmpty(options) THEN <<"?">> \o urlencode(options, 1) ELSE <<>>])

_query_string(query_options) == QueryStrings[query_options]

\* The placeholders of every site, computed once.
PrefixParameters == Table([s \in Sites |-> TemplateKeys(s, 1)])

_prefix_parameters == PrefixParameters[site]

\* re.sub('/$', '', path)
StripSlash(path) ==
    IF Len(path) > 0 /\ path[Len(path)] = "/" THEN SubSeq(path, 1, Len(path) - 1)
    ELSE path

\* The prefix of every site under every options dict, computed once.
Prefixes ==
    Table([s \in Sites |->
             Table([options \in AllKwargs |->
                      safe_substitute(StripSlash(s), 1,
                                      [key \in PrefixParameters[s] |->
                                         Get(options, key)])])])

_prefix(options) == Prefixes[site][options]

_element_path(id_, prefix_options, query_options) ==
    _prefix(prefix_options) \o <<"/">> \o _plural \o <<"/">> \o ToStr(id_)
      \o <<".", "x", "m", "l">> \o _query_string(query_options)

_collection_path(prefix_options, query_options) ==
    _prefix(prefix_options) \o <<"/">> \o _plural
      \o <<".", "x", "m", "l">> \o _query_string(query_options)

_split_options(options) ==
    [prefix_options |-> [key \in OptKeys |->
                           IF key \in _prefix_parameters THEN options[key] ELSE Absent],
     query_options |-> [key \in OptKeys |->
                           IF key \in _prefix_parameters THEN Absent ELSE options[key]]]

---------------------------------------------------------------------------
(* Transport answers and their parsing *)

\* What a transport call answers: it raises connection.Error ("error"), or
\* returns a body that is not parsable ("blank", such as an empty body), one
\* resource element ("xml") or a collection of elements ("list").
ErrorResp == [kind |-> "error", attrs |-> NoAttrs, elems |-> <<>>]
BlankBody == [kind |-> "blank", attrs |-> NoAttrs, elems |-> <<>>]
XmlBody(a) == [kind |-> "xml", attrs |-> a, elems |-> <<>>]
ListBody(n) ==
    [kind |-> "list", attrs |-> NoAttrs,
     elems |-> [i \in 1..n |->
                  [name \in DataNames |->
                     IF name = "id" THEN IntV((i - 1) % (MaxId + 1)) ELSE Absent]]]
NoResp == [kind |-> "none", attrs |-> NoAttrs, elems |-> <<>>]

\* The attributes a server answers with: none, or an id with x = 'b'.
RespAttrs == {NoAttrs} \cup {[name \in DataNames |->
                                IF name = "id" THEN IntV(n) ELSE StrV(<<"b">>)] :
                             n \in 0..MaxId}

ElementResps == {ErrorResp, BlankBody} \cup {XmlBody(a) : a \in RespAttrs}
ListResps == {ErrorResp, BlankBody} \cup {ListBody(n) : n \in 0..MaxList}
HeadResps == {ErrorResp, BlankBody}

\* util.xml_to_dict(xml): the attributes of one element; it raises on a body
\* that does not parse.
Parses(body) == body.kind = "xml"
xml_to_dict(body) == body.attrs

---------------------------------------------------------------------------
(* Instances *)

NoObj == [alive |-> FALSE, attributes |-> NoAttrs, dict |-> NoAttrs,
          prefix_options |-> NoOptions]

\* _update(attributes) on scalar attributes: a new dict holding them.
_update(o, attributes) == [o EXCEPT !.attributes = attributes]

\* __init__(attributes, prefix_options=...): nothing but the three slots of
\* lines 80-83 is in the instance's __dict__.
__init__(attributes, prefix_options) ==
    _update([alive |-> TRUE, attributes |-> NoAttrs, dict |-> NoAttrs,
             prefix_options |-> prefix_options], attributes)

\* _build_object(xml, prefix_options): "not prefix_options" turns None and
\* the empty dict alike into {}.
_build_object(attributes, prefix_options) == __init__(attributes, prefix_options)

Value(v) == [kind |-> "value", val |-> v]
Raise(e) == [kind |-> "raise", val |-> e]
Returns(kind, v) == [kind |-> kind, val |-> v]
NoRet == [kind |-> "none", val |-> None]

\* Reading o.name: the instance's __dict__ is looked up first, and
\* __getattr__ (lines 436-441) only runs for a name that is not in it.
__getattr__(o, name) ==
    IF name = "id" THEN
        Value(IF o.attributes["id"] # Absent THEN o.attributes["id"] ELSE None)
    ELSE IF o.attributes[name] # Absent THEN Value(o.attributes[name])
    ELSE Raise("AttributeError")

getattr(o, name) ==
    IF o.dict[name] # Absent THEN Value(o.dict[name]) ELSE __getattr__(o, name)

\* __setattr__(name, value) on an initialized instance, for a name that is
\* not in the type's __dict__.  A name in the instance's __dict__ is updated
\* there and nowhere else (_prefix_options is in it since __init__, line 81);
\* any other name goes into the attributes and, by line 462, into the
\* instance's __dict__ as well.
__setattr__(o, name, value) ==
    IF name = "_prefix_options" THEN
        [obj |-> [o EXCEPT !.prefix_options = value], ret |-> NoRet]
    ELSE IF o.dict[name] # Absent THEN
        [obj |-> [o EXCEPT !.dict[name] = value], ret |-> NoRet]
    ELSE
        [obj |-> [o EXCEPT !.attributes[name] = value, !.dict[name] = value],
         ret |-> NoRet]

---------------------------------------------------------------------------
(* Requests *)

Request(verb, path) == [verb |-> verb, path |-> path]

\* _connection() run without interruption: the handle, constructed first
\* when the type has none.
_connection ==
    IF connection_obj = 0 THEN [obj |-> constructed + 1, made |-> constructed + 1]
    ELSE [obj |-> connection_obj, made |-> constructed]

\* find(id_, from_, **kwargs)
_find_single(id_, kwargs, r) ==
    LET so == _split_options(kwargs)
        path == _element_path(id_, so.prefix_options, so.query_options)
    IN [reqs |-> <<Request("GET", path)>>,
        ret |-> IF r.kind = "error" THEN Raise("connection.Error")
                ELSE IF ~Parses(r) THEN Raise("Error")
                ELSE Returns("instance", _build_object(xml_to_dict(r), NoOptions))]

_build_list(r, prefix_options) ==
    [i \in 1..Len(r.elems) |-> _build_object(r.elems[i], prefix_options)]

_find_every(from_, kwargs, r) ==
    LET so == _split_options(kwargs)
        path == IF Truthy(from_) THEN ToStr(from_) \o _query_string(kwargs)
                ELSE _collection_path(so.prefix_options, so.query_options)
        prefix_options == IF Truthy(from_) THEN NoOptions ELSE so.prefix_options
    IN [reqs |-> <<Request("GET", path)>>,
        ret |-> IF r.kind = "error" THEN Raise("connection.Error")
                ELSE IF r.kind # "list" THEN Raise("Error")
                ELSE Returns("list", _build_list(r, prefix_options))]

find(id_, from_, kwargs, r) ==
    IF Truthy(id_) THEN _find_single(id_, kwargs, r)
    ELSE _find_every(from_, kwargs, r)

\* _find_one(from_, query_options): the path with the query string is
\* computed, and the GET is issued at from_.
_find_one(from_, query_options, r) ==
    LET path == ToStr(from_) \o _query_string(query_options)
    IN [reqs |-> <<Request("GET", ToStr(from_))>>,
        ret |-> IF r.kind = "error" THEN Raise("connection.Error")
                ELSE IF ~Parses(r) THEN Raise("Error")
                ELSE Returns("instance", _build_object(xml_to_dict(r), NoOptions))]

find_one(from_, kwargs, r) == _find_one(from_, kwargs, r)

\* exists without its except clause: the transport's error reaches the caller.
exists_propagates(id_, kwargs, r) ==
    LET so == _split_options(kwargs)
        path == _element_path(id_, so.prefix_options, so.query_options)
    IN [reqs |-> <<Request("HEAD", path)>>,
        ret |-> IF r.kind = "error" THEN Raise("connection.Error")
                ELSE Returns("bool", TRUE)]

exists(id_, kwargs, r) ==
    LET so == _split_options(kwargs)
        path == _element_path(id_, so.prefix_options, so.query_options)
    IN [reqs |-> <<Request("HEAD", path)>>,
        ret |-> IF r.kind = "error" THEN Returns("bool", FALSE)
                ELSE Returns("bool", TRUE)]

\* save with the handler of line 408 falling through to _update with nothing
\* parsed: the attributes are emptied.
save_updates_anyway(o, r) ==
    LET id == getattr(o, "id").val
        req == IF Truthy(id)
                 THEN Request("PUT", _element_path(id, o.prefix_options, NoOptions))
                 ELSE Request("POST", _collection_path(o.prefix_options, NoOptions))
    IN [reqs |-> <<req>>,
        obj |-> IF r.kind = "error" THEN o
                ELSE IF Parses(r) THEN _update(o, xml_to_dict(r))
                ELSE _update(o, NoAttrs),
        ret |-> IF r.kind = "error" THEN Raise("connection.Error")
                ELSE IF ~Parses(r) THEN NoRet
                ELSE Returns("body", r)]

\* save(): self.id is read as any attribute is.  A response that does not
\* parse ends the call before _update.
save(o, r) ==
    LET id == getattr(o, "id").val
        req == IF Truthy(id)
                 THEN Request("PUT", _element_path(id, o.prefix_options, NoOptions))
                 ELSE Request("POST", _collection_path(o.prefix_options, NoOptions))
    IN [reqs |-> <<req>>,
        obj |-> IF r.kind # "error" /\ Parses(r) THEN _update(o, xml_to_dict(r))
                ELSE o,
        ret |-> IF r.kind = "error" THEN Raise("connection.Error")
                ELSE IF ~Parses(r) THEN NoRet
                ELSE Returns("body", r)]

destroy(o, r) ==
    [reqs |-> <<Request("DELETE",
                        _element_path(getattr(o, "id").val, o.prefix_options, NoOptions))>>,
     ret |-> IF r.kind = "error" THEN Raise("connection.Error") ELSE NoRet]

---------------------------------------------------------------------------
(* The program: one thread of calls on the type and on the instance it     *)
(* holds.  It holds the instance its last constructor or finder call gave  *)
(* it, and lets go of it when a call on the type gives it none.            *)

Ids == {None, StrV(<<"x">>)} \cup {IntV(n) : n \in 0..MaxId}
Froms == {None, StrV(<<"/", "f">>)}
PrefixDicts == {o \in AllKwargs : o[<<"q">>] = Absent /\ (o[<<"j">>] # Absent => o[<<"k">>] # Absent)}
\* The attributes an instance is constructed from by the caller.
NewAttrs == {a \in Attrs : a["x"] # StrV(<<"b">>)}
Threads == 1..MaxThreads

Call(op, id_, from_, kwargs, name, arg) ==
    [op |-> op, id |-> id_, from |-> from_, kwargs |-> kwargs, name |-> name,
     arg |-> arg]
NoCall == Call("none", None, None, NoOptions, "", None)

Init ==
    /\ site \in Sites
    /\ connection_obj = 0
    /\ constructed = 0
    /\ obj = NoObj
    /\ pre = NoObj
    /\ call = NoCall
    /\ resp = NoResp
    /\ reqs = <<>>
    /\ ret = NoRet
    /\ pc = [t \in Threads |-> "idle"]
    /\ new = [t \in Threads |-> 0]
    /\ handle = [t \in Threads |-> 0]
    /\ used = {}

threadVars == <<pc, new, handle, used>>

\* Every request goes through _connection().
Connect ==
    /\ connection_obj' = _connection.obj
    /\ constructed' = _connection.made

New(attributes, prefix_options) ==
    /\ obj' = __init__(attributes, prefix_options)
    /\ pre' = NoObj
    /\ call' = Call("new", None, None, prefix_options, "", attributes)
    /\ resp' = NoResp
    /\ reqs' = <<>>
    /\ ret' = Returns("instance", obj')
    /\ UNCHANGED <<site, connection_obj, constructed, threadVars>>

Find(id_, from_, kwargs, r) ==
    /\ r \in (IF Truthy(id_) THEN ElementResps ELSE ListResps)
    /\ LET out == find(id_, from_, kwargs, r)
       IN /\ reqs' = out.reqs
          /\ ret' = out.ret
          /\ obj' = IF out.ret.kind = "instance" THEN out.ret.val
                    ELSE IF out.ret.kind = "list" /\ Len(out.ret.val) > 0
                      THEN out.ret.val[1]
                    ELSE NoObj
    /\ pre' = NoObj
    /\ call' = Call("find", id_, from_, kwargs, "", None)
    /\ resp' = r
    /\ Connect
    /\ UNCHANGED <<site, threadVars>>

FindOne(from_, kwargs, r) ==
    /\ LET out == find_one(from_, kwargs, r)
       IN /\ reqs' = out.reqs
          /\ ret' = out.ret
          /\ obj' = IF out.ret.kind = "instance" THEN out.ret.val ELSE NoObj
    /\ pre' = NoObj
    /\ call' = Call("find_one", None, from_, kwargs, "", None)
    /\ resp' = r
    /\ Connect
    /\ UNCHANGED <<site, threadVars>>

Exists(id_, kwargs, r) ==
    /\ LET out == exists(id_, kwargs, r)
       IN /\ reqs' = out.reqs
          /\ ret' = out.ret
    /\ obj' = NoObj
    /\ pre' = NoObj
    /\ call' = Call("exists", id_, None, kwargs, "", None)
    /\ resp' = r
    /\ Connect
    /\ UNCHANGED <<site, threadVars>>

Save(r) ==
    /\ obj.alive
    /\ LET out == save(obj, r)
       IN /\ reqs' = out.reqs
          /\ ret' = out.ret
          /\ obj' = out.obj
    /\ pre' = obj
    /\ call' = Call("save", None, None, NoOptions, "", None)
    /\ resp' = r
    /\ Connect
    /\ UNCHANGED <<site, threadVars>>

Destroy(r) ==
    /\ obj.alive
    /\ LET out == destroy(obj, r)
       IN /\ reqs' = out.reqs
          /\ ret' = out.ret
    /\ pre' = obj
    /\ call' = Call("destroy", None, None, NoOptions, "", None)
    /\ resp' = r
    /\ Connect
    /\ UNCHANGED <<site, obj, threadVars>>

SetAttr(name, value) ==
    /\ obj.alive
    /\ LET out == __setattr__(obj, name, value)
       IN /\ obj' = out.obj
          /\ ret' = out.ret
    /\ pre' = obj
    /\ call' = Call("setattr", None, None, NoOptions, name, value)
    /\ resp' = NoResp
    /\ reqs' = <<>>
    /\ UNCHANGED <<site, connection_obj, constructed, threadVars>>

GetAttr(name) ==
    /\ obj.alive
    /\ ret' = getattr(obj, name)
    /\ pre' = obj
    /\ call' = Call("getattr", None, None, NoOptions, name, None)
    /\ resp' = NoResp
    /\ reqs' = <<>>
    /\ UNCHANGED <<site, connection_obj, constructed, obj, threadVars>>

\* The values a caller writes under a name.
WriteValues(name) ==
    IF name = "_prefix_options" THEN PrefixDicts
    ELSE DataValues(name) \ {Absent}

Next ==
    \/ \E a \in NewAttrs, po \in PrefixDicts : New(a, po)
    \/ \E id_ \in Ids, from_ \in Froms, kw \in Kwargs, r \in ElementResps \cup ListResps :
         /\ from_ # None => id_ = None
         /\ Find(id_, from_, kw, r)
    \/ \E kw \in Kwargs, r \in ElementResps : FindOne(StrV(<<"/", "f">>), kw, r)
    \/ \E id_ \in Ids, kw \in Kwargs, r \in HeadResps : Exists(id_, kw, r)
    \/ \E r \in ElementResps : Save(r)
    \/ \E r \in HeadResps : Destroy(r)
    \/ \E name \in {"x", "_prefix_options"} :
         \E value \in WriteValues(name) : SetAttr(name, value)
    \/ \E name \in DataNames : GetAttr(name)

Spec == Init /\ [][Next]_vars

---------------------------------------------------------------------------
(* Threads: _connection() as the interpreter interleaves it.  A thread can *)
(* be switched out between the test of line 339, the construction of lines *)
(* 340-341, the assignment to cls._connection_obj and the read of line 342.*)

\* if not cls._connection_obj
ThreadTest(t) ==
    /\ pc[t] = "idle"
    /\ pc' = [pc EXCEPT ![t] = IF connection_obj = 0 THEN "construct" ELSE "return"]
    /\ UNCHANGED <<site, connection_obj, constructed, obj, pre, call, resp, reqs,
                   ret, new, handle, used>>

\* connection.Connection(cls._site, cls._user, cls._password, cls._timeout)
ThreadConstruct(t) ==
    /\ pc[t] = "construct"
    /\ constructed' = constructed + 1
    /\ new' = [new EXCEPT ![t] = constructed + 1]
    /\ pc' = [pc EXCEPT ![t] = "assign"]
    /\ UNCHANGED <<site, connection_obj, obj, pre, call, resp, reqs, ret, handle, used>>

\* cls._connection_obj = ...
ThreadAssign(t) ==
    /\ pc[t] = "assign"
    /\ connection_obj' = new[t]
    /\ pc' = [pc EXCEPT ![t] = "return"]
    /\ UNCHANGED <<site, constructed, obj, pre, call, resp, reqs, ret, new, handle, used>>

\* return cls._connection_obj
ThreadReturn(t) ==
    /\ pc[t] = "return"
    /\ handle' = [handle EXCEPT ![t] = connection_obj]
    /\ pc' = [pc EXCEPT ![t] = "use"]
    /\ UNCHANGED <<site, connection_obj, constructed, obj, pre, call, resp, reqs,
                   ret, new, used>>

\* The request of the thread's operation, such as cls._connection().head(...)
ThreadUse(t) ==
    /\ pc[t] = "use"
    /\ used' = used \cup {handle[t]}
    /\ pc' = [pc EXCEPT ![t] = "done"]
    /\ UNCHANGED <<site, connection_obj, constructed, obj, pre, call, resp, reqs,
                   ret, new, handle>>

\* The thread starts its next operation.
ThreadAgain(t) ==
    /\ pc[t] = "done"
    /\ pc' = [pc EXCEPT ![t] = "idle"]
    /\ UNCHANGED <<site, connection_obj, constructed, obj, pre, call, resp, reqs,
                   ret, new, handle, used>>

NextConc ==
    \/ \E t \in Threads : ThreadTest(t)
    \/ \E t \in Threads : ThreadConstruct(t)
    \/ \E t \in Threads : ThreadAssign(t)
    \/ \E t \in Threads : ThreadReturn(t)
    \/ \E t \in Threads : ThreadUse(t)
    \/ \E t \in Threads : ThreadAgain(t)

SpecConc == Init /\ [][NextConc]_vars

---------------------------------------------------------------------------
(* Properties *)

SplitOf(kwargs) == _split_options(kwargs)

IsPlaceholder(key) == key \in TemplateKeys(site, 1)

\* The element path as the specification composes it: the site path without
\* its trailing "/" and with each placeholder replaced by its prefix value,
\* then "/" plural "/" id ".xml", then the query string.
ExpectedElementPath(id_, kwargs) ==
    LET prefix_options == [key \in {k \in OptKeys : IsPlaceholder(k)} |-> kwargs[key]]
        query_options == [key \in OptKeys |->
                            IF IsPlaceholder(key) THEN Absent ELSE kwargs[key]]
        resolved == safe_substitute(StripSlash(site), 1,
                                    [key \in TemplateKeys(site, 1) |->
                                       Get(prefix_options, key)])
        query == IF NonEmpty(query_options)
                   THEN <<"?">> \o urlencode(query_options, 1) ELSE <<>>
    IN resolved \o <<"/">> \o _plural \o <<"/">> \o ToStr(id_)
         \o <<".", "x", "m", "l">> \o query

\* C1: find(id, **options) puts every option key in exactly one of the prefix
\* options (the placeholders of the site) and the query options (the rest),
\* and issues its single GET at resolvedPrefix/plural/id.xml plus the query.
C1_FindElementPath ==
    (call.op = "find" /\ call.id # None) =>
        /\ \A key \in OptKeys :
             call.kwargs[key] # Absent =>
               /\ (SplitOf(call.kwargs).prefix_options[key] # Absent) = IsPlaceholder(key)
               /\ (SplitOf(call.kwargs).query_options[key] # Absent) = ~IsPlaceholder(key)
        /\ reqs = <<Request("GET", ExpectedElementPath(call.id, call.kwargs))>>

\* The same for the ids find takes as an id (those that are true in a test).
FindElementPathOfTruthyId ==
    (call.op = "find" /\ Truthy(call.id)) =>
        reqs = <<Request("GET", ExpectedElementPath(call.id, call.kwargs))>>

\* C2: find with any id that is not null (0 included) issues one GET at the
\* id's element path and returns one instance; find without an id issues one
\* GET at the collection path, or at from plus the query string of all the
\* extras, and returns a list.
C2_FindById ==
    call.op = "find" =>
        /\ Len(reqs) = 1
        /\ reqs[1].verb = "GET"
        /\ IF call.id # None
             THEN /\ reqs[1].path = _element_path(call.id,
                                                  SplitOf(call.kwargs).prefix_options,
                                                  SplitOf(call.kwargs).query_options)
                  /\ ret.kind \in {"instance", "raise"}
             ELSE /\ reqs[1].path =
                       IF call.from # None
                         THEN ToStr(call.from) \o _query_string(call.kwargs)
                         ELSE _collection_path(SplitOf(call.kwargs).prefix_options,
                                               SplitOf(call.kwargs).query_options)
                  /\ ret.kind \in {"list", "raise"}

\* C3: save issues exactly one request: a PUT to the element path of the
\* instance's id when the instance has an id attribute, a POST to the
\* collection path when it has none.
C3_SaveVerb ==
    call.op = "save" =>
        reqs = <<IF pre.attributes["id"] # Absent
                   THEN Request("PUT", _element_path(pre.attributes["id"],
                                                     pre.prefix_options, NoOptions))
                   ELSE Request("POST", _collection_path(pre.prefix_options,
                                                         NoOptions))>>

C5_ExistsBoolean ==
    call.op = "exists" =>
        /\ reqs = <<Request("HEAD", _element_path(call.id,
                                                  SplitOf(call.kwargs).prefix_options,
                                                  SplitOf(call.kwargs).query_options))>>
        /\ ret = Returns("bool", resp.kind # "error")

C5_Witness ==
    /\ call.op = "exists"
    /\ resp.kind = "error"
    /\ ret = Returns("bool", FALSE)
    /\ Len(reqs) = 1

\* C6: find_one issues one GET at the from path followed by the query string
\* of all its extras.
C6_FindOnePath ==
    call.op = "find_one" =>
        reqs = <<Request("GET", ToStr(call.from) \o _query_string(call.kwargs))>>

\* C7: after a write to a data name the attributes hold the value written,
\* also when the name was written before; a write to a name of the
\* instance's own state updates that slot and leaves the attributes as they
\* were.
C7_WriteReachesAttributes ==
    call.op = "setattr" =>
        IF call.name \in DataNames
          THEN ret = NoRet /\ obj.attributes[call.name] = call.arg
          ELSE /\ ret = NoRet
               /\ obj.attributes = pre.attributes
               /\ call.name = "_prefix_options" => obj.prefix_options = call.arg

\* C8: at most one connection is ever constructed for the type, and every
\* request of the type goes out on that one.
C8_OneConnection ==
    /\ constructed <= 1
    /\ Cardinality(used) <= 1

\* C9: the instance find(id, **prefix values) returns has those prefix values
\* as its prefix options, so that its own paths have the prefix it was
\* fetched under.
C9_FoundInstanceKeepsPrefix ==
    (call.op = "find" /\ ret.kind = "instance") =>
        /\ obj.prefix_options = SplitOf(call.kwargs).prefix_options
        /\ _prefix(obj.prefix_options) = _prefix(SplitOf(call.kwargs).prefix_options)

\* C10: reading a data name gives the value the attributes hold under it, and
\* signals AttributeError when they hold none (id reads as None instead).
C10_ReadReturnsAttribute ==
    (call.op = "getattr" /\ call.name \in DataNames) =>
        ret = IF obj.attributes[call.name] # Absent THEN Value(obj.attributes[call.name])
              ELSE IF call.name = "id" THEN Value(None)
              ELSE Raise("AttributeError")

====
